---- MODULE Spec2Model ----
(***************************************************************************)
(* SnakeSaver: the cell graph, the per-step movement of the snake head,    *)
(* the growth / truncation of the next_snake chain, food placement and the *)
(* driver Game.output that records one frozen board per successful step.   *)
(***************************************************************************)
EXTENDS Integers, Sequences, FiniteSets, TLC

\* Largest configured initial_snake_length explored.
MaxInitLen == 4
\* Largest number of successful advance calls explored in one run.
MaxSteps == 4
\* Largest number of freeze_state calls made between two advance calls.
MaxProbes == 2

\* Python's None (a missing cell).
None == -1

(***************************************************************************)
(* Configurations and topologies                                           *)
(***************************************************************************)

\* The boards explored: RectBoard configurations (config["dimensions"]) and
\* a ring of 5 cells wired in either neighbour iteration order.
Boards ==
    { [kind |-> "rect", width |-> 2, height |-> 2, flip |-> FALSE],
      [kind |-> "rect", width |-> 3, height |-> 2, flip |-> FALSE],
      [kind |-> "rect", width |-> 3, height |-> 3, flip |-> FALSE],
      [kind |-> "ring", width |-> 5, height |-> 1, flip |-> FALSE],
      [kind |-> "ring", width |-> 5, height |-> 1, flip |-> TRUE] }

\* Board.cells of a board: width * height cells, named by their list index.
CellsOf(b) == 0 .. (b.width * b.height - 1)

\* RectBoard.set_up_cells: the ordered dict cell.connections of cell ind, as
\* the sequence of <<neighbour, continuation>> pairs in insertion order.
RectConnections(b, ind) ==
    LET width == b.width
        height == b.height
        x_coord == ind % width
        y_coord == ind \div width
        xs == IF x_coord = 0 THEN << <<ind + 1, None>> >>
              ELSE IF x_coord = width - 1 THEN << <<ind - 1, None>> >>
              ELSE << <<ind + 1, ind - 1>>, <<ind - 1, ind + 1>> >>
        ys == IF y_coord = 0 THEN << <<ind + width, None>> >>
              ELSE IF y_coord = height - 1 THEN << <<ind - width, None>> >>
              ELSE << <<ind + width, ind - width>>, <<ind - width, ind + width>> >>
    IN  xs \o ys

\* A ring 0-1-...-(n-1)-0: the continuation of a cell entered from one side
\* is its neighbour on the other side.
RingConnections(b, ind) ==
    LET n == b.width
        up == (ind + 1) % n
        down == (ind + n - 1) % n
    IN  IF b.flip THEN << <<down, up>>, <<up, down>> >>
        ELSE << <<up, down>>, <<down, up>> >>

\* The connections attribute of every cell of board b.
Wire(b) ==
    [c \in CellsOf(b) |->
        IF b.kind = "rect" THEN RectConnections(b, c) ELSE RingConnections(b, c)]

VARIABLES
    config,           \* Board.config: the board and initial_snake_length
    connections,      \* Cell.connections of every cell
    next_snake,       \* Cell._next_snake of every cell
    is_food,          \* Cell._is_food of every cell
    snake_head,       \* Board.snake_head
    previous_snake,   \* set_initial_snake: the local previous_snake
    to_place,         \* set_initial_snake: iterations of the loop left
    next_snake_head,  \* get_next_snake_head: the local next_snake_head
    found_food,       \* get_next_snake_head: the local found_food
    board_list,       \* Game.output: the local board_list
    probe,            \* results of freeze_state calls since the last advance
    advances,         \* number of advance calls that returned
    eaten,            \* number of advance calls that returned food_found
    pc,               \* position in RectBoard.__init__ / Game.output
    err               \* the exception that ended the run, if any

vars == << config, connections, next_snake, is_food, snake_head,
           previous_snake, to_place, next_snake_head, found_food,
           board_list, probe, advances, eaten, pc, err >>

Cells == DOMAIN next_snake

\* The values the fields and locals hold.
TypeOK ==
    /\ config.board \in Boards
    /\ config.initial_snake_length \in 0 .. MaxInitLen
    /\ Cells = CellsOf(config.board)
    /\ next_snake \in [Cells -> Cells \cup {None}]
    /\ is_food \in [Cells -> BOOLEAN]
    /\ snake_head \in Cells \cup {None}
    /\ previous_snake \in Cells \cup {None}
    /\ to_place \in 0 .. MaxInitLen
    /\ next_snake_head \in Cells \cup {None}
    /\ found_food \in BOOLEAN
    /\ \A i \in 1 .. Len(board_list) :
         board_list[i] \in [Cells -> [is_snake : BOOLEAN, is_food : BOOLEAN]]
    /\ Len(probe) <= MaxProbes
    /\ advances \in 0 .. MaxSteps
    /\ eaten \in 0 .. advances
    /\ pc \in {"set_initial_snake", "extend_snake", "assign_initial_food", "output",
               "ready", "link", "assign_food", "append", "lost", "won", "crashed"}
    /\ err \in {"none", "GameOver", "GameWon", "LogicError", "IndexError",
                "RecursionError"}

(***************************************************************************)
(* Cell                                                                    *)
(***************************************************************************)

\* Cell.is_snake
IsSnake(ns, c) == ns[c] # None

\* Cell.neighbours: the keys of connections, in iteration order.
Neighbours(conns, c) == [i \in 1 .. Len(conns[c]) |-> conns[c][i][1]]

\* The set of the neighbours of a cell.
NeighbourSet(conns, c) == { conns[c][i][1] : i \in 1 .. Len(conns[c]) }

\* cell.connections[from]
Continuation(conns, c, from) ==
    LET I == { i \in 1 .. Len(conns[c]) : conns[c][i][1] = from }
    IN  conns[c][CHOOSE i \in I : TRUE][2]

\* Cell._is_passable
IsPassable(ns, possible_cell) ==
    ~ (possible_cell = None \/ IsSnake(ns, possible_cell))

\* The next_snake setter: raises LogicError on a food cell.
SetNextSnake(ns, food, c, value) ==
    IF food[c] /\ value # None
    THEN [raised |-> "LogicError", next_snake |-> ns]
    ELSE [raised |-> "none", next_snake |-> [ns EXCEPT ![c] = value]]

\* Mutant of SetIsFood: the setter without its is_snake guard.
SetIsFoodUnguarded(ns, food, c, value) ==
    [raised |-> "none", is_food |-> [food EXCEPT ![c] = value]]

\* The is_food setter: raises LogicError on a snake cell.
SetIsFood(ns, food, c, value) ==
    IF IsSnake(ns, c) /\ value
    THEN [raised |-> "LogicError", is_food |-> food]
    ELSE [raised |-> "none", is_food |-> [food EXCEPT ![c] = value]]

\* find_next_snake_head, the while loop: does the straight walk that leaves
\* the head through connection reach food?
LookaheadFindsFood(conns, ns, food, head, connection) ==
    LET RECURSIVE Walk(_, _, _)
        Walk(previous_cell, current_cell, seen_cells) ==
            LET next_cell == Continuation(conns, current_cell, previous_cell)
            IN  IF ~ IsPassable(ns, next_cell) THEN FALSE
                ELSE IF next_cell \in seen_cells THEN FALSE
                ELSE IF food[next_cell] THEN TRUE
                ELSE Walk(current_cell, next_cell, seen_cells \cup {next_cell})
    IN  Walk(head, connection, {head, connection})

\* Mutant of ScanNeighbours: snake-occupied neighbours are not skipped, so
\* the lookahead also starts from them.
ScanNeighboursNoSkip(conns, ns, food, head) ==
    LET nbrs == Neighbours(conns, head)
        RECURSIVE Scan(_)
        Scan(i) ==
            IF i > Len(nbrs) THEN None
            ELSE LET connection == nbrs[i]
                 IN  IF food[connection] THEN connection
                     ELSE IF LookaheadFindsFood(conns, ns, food, head, connection)
                          THEN connection
                          ELSE Scan(i + 1)
    IN  Scan(1)

\* find_next_snake_head, the for loop: the connection it returns, or None
\* when the loop runs to its end.
ScanNeighbours(conns, ns, food, head) ==
    LET nbrs == Neighbours(conns, head)
        RECURSIVE Scan(_)
        Scan(i) ==
            IF i > Len(nbrs) THEN None
            ELSE LET connection == nbrs[i]
                 IN  IF food[connection] THEN connection
                     ELSE IF IsSnake(ns, connection) THEN Scan(i + 1)
                     ELSE IF LookaheadFindsFood(conns, ns, food, head, connection)
                          THEN connection
                          ELSE Scan(i + 1)
    IN  Scan(1)

\* Mutant of FindNextSnakeHead: option_list is not filtered by is_snake, so
\* a surrounded head picks a snake neighbour instead of raising GameOver.
FindNextSnakeHeadUnfiltered(conns, ns, food, head) ==
    LET seen == ScanNeighbours(conns, ns, food, head)
    IN  IF seen # None THEN [raised |-> "none", cells |-> {seen}]
        ELSE IF ns[head] = None THEN [raised |-> "LogicError", cells |-> {}]
        ELSE LET forward_cell == Continuation(conns, head, ns[head])
                 option_list == NeighbourSet(conns, head)
             IN  IF IsPassable(ns, forward_cell)
                 THEN [raised |-> "none", cells |-> {forward_cell}]
                 ELSE IF option_list = {}
                      THEN [raised |-> "GameOver", cells |-> {}]
                      ELSE [raised |-> "none", cells |-> option_list]

\* Mutant of FindNextSnakeHead: the forward cell is never tried; without
\* food in sight the head always picks a non-snake neighbour at random.
FindNextSnakeHeadNoForward(conns, ns, food, head) ==
    LET seen == ScanNeighbours(conns, ns, food, head)
    IN  IF seen # None THEN [raised |-> "none", cells |-> {seen}]
        ELSE IF ns[head] = None THEN [raised |-> "LogicError", cells |-> {}]
        ELSE LET option_list == { n \in NeighbourSet(conns, head) : ~ IsSnake(ns, n) }
             IN  IF option_list = {}
                 THEN [raised |-> "GameOver", cells |-> {}]
                 ELSE [raised |-> "none", cells |-> option_list]

\* find_next_snake_head: the exception raised ("none" if it returns) and the
\* cells it can return (several when random.choice picks).
FindNextSnakeHead(conns, ns, food, head) ==
    LET seen == ScanNeighbours(conns, ns, food, head)
    IN  IF seen # None THEN [raised |-> "none", cells |-> {seen}]
        ELSE IF ns[head] = None THEN [raised |-> "LogicError", cells |-> {}]
        ELSE LET forward_cell == Continuation(conns, head, ns[head])
                 option_list == { n \in NeighbourSet(conns, head) : ~ IsSnake(ns, n) }
             IN  IF IsPassable(ns, forward_cell)
                 THEN [raised |-> "none", cells |-> {forward_cell}]
                 ELSE IF option_list = {}
                      THEN [raised |-> "GameOver", cells |-> {}]
                      ELSE [raised |-> "none", cells |-> option_list]

\* Mutant of TruncateSnake: the walk ends without removing the tail link.
TruncateSnakeKeepsTail(ns, food, self, head) ==
    IF ns[self] = None
    THEN [raised |-> "LogicError", next_snake |-> ns]
    ELSE [raised |-> "none", next_snake |-> ns]

\* truncate_snake called on cell self: the exception raised and the links
\* afterwards.  A walk longer than the number of cells is inside a cycle of
\* links and never ends: Python raises RecursionError.
TruncateSnake(ns, food, self, head) ==
    LET RECURSIVE Walk(_, _)
        Walk(cell, fuel) ==
            IF ns[cell] = None
            THEN [raised |-> "LogicError", next_snake |-> ns]
            ELSE IF ns[ns[cell]] = None \/ ns[ns[cell]] = head
                 THEN SetNextSnake(ns, food, cell, None)
                 ELSE IF fuel = 0
                      THEN [raised |-> "RecursionError", next_snake |-> ns]
                      ELSE Walk(ns[cell], fuel - 1)
    IN  Walk(self, Cardinality(DOMAIN ns))

(***************************************************************************)
(* Board                                                                   *)
(***************************************************************************)

\* CellHistory.__init__ for every cell: BoardHistory.cells
FreezeCells(ns, food) ==
    [c \in DOMAIN ns |-> [is_snake |-> IsSnake(ns, c), is_food |-> food[c]]]

\* Mutant of AssignFood: the cells are filtered by is_food instead of
\* is_snake, so a full board is not noticed.
AssignFoodFiltersFood(ns, food) ==
    LET possible_cells == { c \in DOMAIN ns : ~ food[c] }
    IN  IF possible_cells = {}
        THEN { [raised |-> "GameWon", is_food |-> food] }
        ELSE { SetIsFood(ns, food, c, TRUE) : c \in possible_cells }

\* Board.assign_food: the outcomes of choosing a non-snake cell at random.
AssignFood(ns, food) ==
    LET possible_cells == { c \in DOMAIN ns : ~ IsSnake(ns, c) }
    IN  IF possible_cells = {}
        THEN { [raised |-> "GameWon", is_food |-> food] }
        ELSE { SetIsFood(ns, food, c, TRUE) : c \in possible_cells }

Init ==
    /\ config \in { [board |-> b, initial_snake_length |-> n] :
                        b \in Boards, n \in 0 .. MaxInitLen }
    /\ connections = Wire(config.board)
    /\ next_snake = [c \in CellsOf(config.board) |-> None]
    /\ is_food = [c \in CellsOf(config.board) |-> FALSE]
    /\ snake_head = None
    /\ previous_snake = None
    /\ to_place = 0
    /\ next_snake_head = None
    /\ found_food = FALSE
    /\ board_list = << >>
    /\ probe = << >>
    /\ advances = 0
    /\ eaten = 0
    /\ pc = "set_initial_snake"
    /\ err = "none"

\* set_initial_snake: the head is any cell.
ChooseSnakeHead ==
    /\ pc = "set_initial_snake"
    /\ \E c \in Cells :
        /\ snake_head' = c
        /\ previous_snake' = c
    /\ to_place' = config.initial_snake_length
    /\ pc' = "extend_snake"
    /\ UNCHANGED << config, connections, next_snake, is_food, next_snake_head,
                    found_food, board_list, probe, advances, eaten, err >>

\* set_initial_snake: one iteration of the loop; leaving the loop returns to
\* RectBoard.__init__, which calls assign_food next.
ExtendSnake ==
    /\ pc = "extend_snake"
    /\ IF to_place = 0
       THEN /\ pc' = "assign_initial_food"
            /\ previous_snake' = None
            /\ UNCHANGED << next_snake, to_place, err >>
       ELSE LET options == { n \in NeighbourSet(connections, previous_snake) :
                               ~ IsSnake(next_snake, n) }
            IN  IF options = {}
                THEN /\ pc' = "crashed"
                     /\ err' = "IndexError"
                     /\ UNCHANGED << next_snake, previous_snake, to_place >>
                ELSE \E n \in options :
                       LET w == SetNextSnake(next_snake, is_food, previous_snake, n)
                       IN  /\ next_snake' = w.next_snake
                           /\ IF w.raised = "none"
                              THEN /\ previous_snake' = n
                                   /\ to_place' = to_place - 1
                                   /\ UNCHANGED << pc, err >>
                              ELSE /\ pc' = "crashed"
                                   /\ err' = w.raised
                                   /\ UNCHANGED << previous_snake, to_place >>
    /\ UNCHANGED << config, connections, is_food, snake_head, next_snake_head,
                    found_food, board_list, probe, advances, eaten >>

\* RectBoard.__init__: the call of assign_food; a GameWon here is not caught.
AssignInitialFood ==
    /\ pc = "assign_initial_food"
    /\ \E r \in AssignFood(next_snake, is_food) :
        /\ is_food' = r.is_food
        /\ IF r.raised = "none"
           THEN /\ pc' = "output"
                /\ UNCHANGED err
           ELSE /\ pc' = "crashed"
                /\ err' = r.raised
    /\ UNCHANGED << config, connections, next_snake, snake_head, previous_snake,
                    to_place, next_snake_head, found_food, board_list, probe,
                    advances, eaten >>

(***************************************************************************)
(* Game.output and Board.advance                                           *)
(***************************************************************************)

\* Mutant of OutputStart: board_list starts empty, without the snapshot of
\* the initial board.
OutputStartEmpty ==
    /\ pc = "output"
    /\ board_list' = << >>
    /\ pc' = "ready"
    /\ UNCHANGED << config, connections, next_snake, is_food, snake_head,
                    previous_snake, to_place, next_snake_head, found_food,
                    probe, advances, eaten, err >>

\* Game.output: board_list = [self.board.freeze_state()]
OutputStart ==
    /\ pc = "output"
    /\ board_list' = << FreezeCells(next_snake, is_food) >>
    /\ pc' = "ready"
    /\ UNCHANGED << config, connections, next_snake, is_food, snake_head,
                    previous_snake, to_place, next_snake_head, found_food,
                    probe, advances, eaten, err >>

\* Mutant of FreezeState: taking the snapshot clears the food flags of the
\* live cells.
FreezeStateClearsFood ==
    /\ pc = "ready"
    /\ Len(probe) < MaxProbes
    /\ probe' = Append(probe, FreezeCells(next_snake, is_food))
    /\ is_food' = [c \in Cells |-> FALSE]
    /\ UNCHANGED << config, connections, next_snake, snake_head,
                    previous_snake, to_place, next_snake_head, found_food,
                    board_list, advances, eaten, pc, err >>

\* Board.freeze_state called on the live board between two advance calls.
FreezeState ==
    /\ pc = "ready"
    /\ Len(probe) < MaxProbes
    /\ probe' = Append(probe, FreezeCells(next_snake, is_food))
    /\ UNCHANGED << config, connections, next_snake, is_food, snake_head,
                    previous_snake, to_place, next_snake_head, found_food,
                    board_list, advances, eaten, pc, err >>

\* Mutant of GetNextSnakeHead: the chain is truncated before the search, so
\* a trapped head has lost its tail link when GameOver is raised.
GetNextSnakeHeadTruncatesFirst ==
    /\ pc = "ready"
    /\ advances < MaxSteps
    /\ probe' = << >>
    /\ IF next_snake[snake_head] = None
       THEN /\ pc' = "crashed"
            /\ err' = "LogicError"
            /\ UNCHANGED << next_snake, is_food, next_snake_head, found_food >>
       ELSE LET f == FindNextSnakeHead(connections, next_snake, is_food, snake_head)
                t == TruncateSnake(next_snake, is_food,
                                   next_snake[snake_head], snake_head)
            IN  IF f.raised # "none"
                THEN /\ pc' = IF f.raised = "GameOver" THEN "lost" ELSE "crashed"
                     /\ err' = f.raised
                     /\ next_snake' = t.next_snake
                     /\ UNCHANGED << is_food, next_snake_head, found_food >>
                ELSE \E c \in f.cells :
                       /\ next_snake_head' = c
                       /\ found_food' = is_food[c]
                       /\ IF is_food[c]
                          THEN LET w == SetIsFood(next_snake, is_food, c, FALSE)
                               IN  /\ is_food' = w.is_food
                                   /\ pc' = IF w.raised = "none" THEN "link" ELSE "crashed"
                                   /\ err' = w.raised
                                   /\ UNCHANGED next_snake
                          ELSE /\ next_snake' = t.next_snake
                               /\ pc' = IF t.raised = "none" THEN "link" ELSE "crashed"
                               /\ err' = t.raised
                               /\ UNCHANGED is_food
    /\ UNCHANGED << config, connections, snake_head, previous_snake, to_place,
                    board_list, advances, eaten >>

\* Board.advance entering get_next_snake_head on the head: the search, then
\* the food is eaten or the chain is truncated.
GetNextSnakeHead ==
    /\ pc = "ready"
    /\ advances < MaxSteps
    /\ probe' = << >>
    /\ IF next_snake[snake_head] = None
       THEN /\ pc' = "crashed"
            /\ err' = "LogicError"
            /\ UNCHANGED << next_snake, is_food, next_snake_head, found_food >>
       ELSE LET f == FindNextSnakeHead(connections, next_snake, is_food, snake_head)
            IN  IF f.raised # "none"
                THEN /\ pc' = IF f.raised = "GameOver" THEN "lost" ELSE "crashed"
                     /\ err' = f.raised
                     /\ UNCHANGED << next_snake, is_food, next_snake_head, found_food >>
                ELSE \E c \in f.cells :
                       /\ next_snake_head' = c
                       /\ found_food' = is_food[c]
                       /\ IF is_food[c]
                          THEN LET w == SetIsFood(next_snake, is_food, c, FALSE)
                               IN  /\ is_food' = w.is_food
                                   /\ pc' = IF w.raised = "none" THEN "link" ELSE "crashed"
                                   /\ err' = w.raised
                                   /\ UNCHANGED next_snake
                          ELSE LET t == TruncateSnake(next_snake, is_food,
                                                      next_snake[snake_head], snake_head)
                               IN  /\ next_snake' = t.next_snake
                                   /\ pc' = IF t.raised = "none" THEN "link" ELSE "crashed"
                                   /\ err' = t.raised
                                   /\ UNCHANGED is_food
    /\ UNCHANGED << config, connections, snake_head, previous_snake, to_place,
                    board_list, advances, eaten >>

\* Mutant of LinkSnakeHead: advance calls assign_food whether or not food
\* was found.
LinkSnakeHeadAlwaysAssigns ==
    /\ pc = "link"
    /\ LET w == SetNextSnake(next_snake, is_food, next_snake_head, snake_head)
       IN  /\ next_snake' = w.next_snake
           /\ IF w.raised # "none"
              THEN /\ pc' = "crashed"
                   /\ err' = w.raised
                   /\ UNCHANGED << snake_head, next_snake_head, found_food, advances >>
              ELSE /\ snake_head' = next_snake_head
                   /\ next_snake_head' = None
                   /\ pc' = "assign_food"
                   /\ UNCHANGED << found_food, err, advances >>
    /\ UNCHANGED << config, connections, is_food, previous_snake, to_place,
                    board_list, probe, eaten >>

\* get_next_snake_head links the new head to the old one and returns;
\* Board.advance stores the new head.
LinkSnakeHead ==
    /\ pc = "link"
    /\ LET w == SetNextSnake(next_snake, is_food, next_snake_head, snake_head)
       IN  /\ next_snake' = w.next_snake
           /\ IF w.raised # "none"
              THEN /\ pc' = "crashed"
                   /\ err' = w.raised
                   /\ UNCHANGED << snake_head, next_snake_head, found_food, advances >>
              ELSE /\ snake_head' = next_snake_head
                   /\ next_snake_head' = None
                   /\ UNCHANGED << found_food, err >>
                   /\ IF found_food
                      THEN /\ pc' = "assign_food"
                           /\ UNCHANGED advances
                      ELSE /\ pc' = "append"
                           /\ advances' = advances + 1
    /\ UNCHANGED << config, connections, is_food, previous_snake, to_place,
                    board_list, probe, eaten >>

\* Board.advance: food was found, assign_food places the next food or raises
\* GameWon.
AdvanceAssignFood ==
    /\ pc = "assign_food"
    /\ \E r \in AssignFood(next_snake, is_food) :
        /\ is_food' = r.is_food
        /\ IF r.raised = "none"
           THEN /\ pc' = "append"
                /\ advances' = advances + 1
                /\ eaten' = eaten + 1
                /\ found_food' = FALSE
                /\ UNCHANGED err
           ELSE /\ pc' = IF r.raised = "GameWon" THEN "won" ELSE "crashed"
                /\ err' = r.raised
                /\ UNCHANGED << advances, eaten, found_food >>
    /\ UNCHANGED << config, connections, next_snake, snake_head, previous_snake,
                    to_place, next_snake_head, board_list, probe >>

\* Mutant of OutputAppend: the snapshots read is_snake and is_food through
\* to the live cells, so every stored snapshot shows the current board.
OutputAppendLiveCells ==
    /\ pc = "append"
    /\ board_list' = [i \in 1 .. Len(board_list) + 1 |->
                         FreezeCells(next_snake, is_food)]
    /\ pc' = "ready"
    /\ UNCHANGED << config, connections, next_snake, is_food, snake_head,
                    previous_snake, to_place, next_snake_head, found_food,
                    probe, advances, eaten, err >>

\* Game.output: board_list.append(self.board.freeze_state())
OutputAppend ==
    /\ pc = "append"
    /\ board_list' = Append(board_list, FreezeCells(next_snake, is_food))
    /\ pc' = "ready"
    /\ UNCHANGED << config, connections, next_snake, is_food, snake_head,
                    previous_snake, to_place, next_snake_head, found_food,
                    probe, advances, eaten, err >>

Next ==
    \/ ChooseSnakeHead
    \/ ExtendSnake
    \/ AssignInitialFood
    \/ OutputStart
    \/ FreezeState
    \/ GetNextSnakeHead
    \/ LinkSnakeHead
    \/ AdvanceAssignFood
    \/ OutputAppend

Spec == Init /\ [][Next]_vars

(***************************************************************************)
(* The snake chain and the food, as the properties below read them         *)
(***************************************************************************)

\* Does following next_snake from head end at a cell with a null link
\* without visiting a cell twice?
ChainAcyclic(ns, head) ==
    LET RECURSIVE Walk(_, _)
        Walk(c, seen) ==
            IF ns[c] = None THEN TRUE
            ELSE IF ns[c] \in seen THEN FALSE
            ELSE Walk(ns[c], seen \cup {ns[c]})
    IN  Walk(head, {head})

\* The number of next_snake links followed from head until a cell with a
\* null link; None when the walk never reaches one.
ChainLength(ns, head) ==
    LET RECURSIVE Walk(_, _)
        Walk(c, seen) ==
            IF ns[c] = None THEN 0
            ELSE IF ns[c] \in seen THEN None
            ELSE LET rest == Walk(ns[c], seen \cup {ns[c]})
                 IN  IF rest = None THEN None ELSE rest + 1
    IN  Walk(head, {head})

FoodCells == { c \in Cells : is_food[c] }

\* The board is initialised and no advance is running.
BetweenAdvances == pc \in {"output", "ready", "append"}

\* Every neighbour of the head is snake-occupied.
HeadSurrounded ==
    \A n \in NeighbourSet(connections, snake_head) : IsSnake(next_snake, n)

\* The neighbours n of the head from which the straight walk head, n, ...
\* reaches the food over cells none of which is snake-occupied.
CorridorStarts ==
    LET RECURSIVE Reaches(_, _, _)
        Reaches(previous_cell, current_cell, k) ==
            LET next_cell == Continuation(connections, current_cell, previous_cell)
            IN  /\ next_cell # None
                /\ ~ IsSnake(next_snake, next_cell)
                /\ \/ is_food[next_cell]
                   \/ k > 0 /\ Reaches(current_cell, next_cell, k - 1)
    IN  { n \in NeighbourSet(connections, snake_head) :
            /\ ~ IsSnake(next_snake, n)
            /\ ~ is_food[n]
            /\ Reaches(snake_head, n, Cardinality(Cells)) }

FoodAdjacentToHead ==
    \E n \in NeighbourSet(connections, snake_head) : is_food[n]

\* The last element of a non-empty sequence.
Last(seq) == seq[Len(seq)]

(***************************************************************************)
(* Properties                                                              *)
(***************************************************************************)

\* C1: in every state, the steps of initialisation and of advance included,
\* no cell is both snake and food; writing a non-null next_snake on a food
\* cell, or is_food = True on a snake cell, raises LogicError and leaves the
\* cell as it was.
C1_SnakeFoodExclusive ==
    /\ \A c \in Cells : ~ (IsSnake(next_snake, c) /\ is_food[c])
    /\ \A c \in Cells :
        /\ is_food[c] =>
             \A v \in Cells :
                LET w == SetNextSnake(next_snake, is_food, c, v)
                IN  w.raised = "LogicError" /\ w.next_snake = next_snake
        /\ IsSnake(next_snake, c) =>
             LET w == SetIsFood(next_snake, is_food, c, TRUE)
             IN  w.raised = "LogicError" /\ w.is_food = is_food

\* C1 witness: inside an advance, after the truncation and before the new
\* head is linked, with food on the board and a snake cell.
C1_Witness ==
    /\ pc = "link"
    /\ ~ found_food
    /\ FoodCells # {}
    /\ IsSnake(next_snake, snake_head)

\* C2: after initialisation and after every advance the chain followed from
\* snake_head visits no cell twice and ends at a cell with a null next_snake.
C2_ChainAcyclic ==
    BetweenAdvances => ChainAcyclic(next_snake, snake_head)

\* C3: after initialisation with length L and successful advances of which
\* k ate food, the chain followed from snake_head has L + k links.
C3_ChainLength ==
    BetweenAdvances =>
        ChainLength(next_snake, snake_head) = config.initial_snake_length + eaten

\* C4: when find_next_snake_head is called with a food cell among the
\* neighbours of the head, it returns exactly that food cell.
C4_AdjacentFoodTaken ==
    (pc = "ready" /\ IsSnake(next_snake, snake_head)) =>
        \A n \in NeighbourSet(connections, snake_head) :
            is_food[n] =>
                LET f == FindNextSnakeHead(connections, next_snake, is_food, snake_head)
                IN  f.raised = "none" /\ f.cells = {n}

\* C5: when no food is adjacent to the head and a straight corridor of
\* non-snake cells leads from the head to the food, advance moves the head
\* one step onto a neighbour that starts such a corridor and eats nothing.
C5_CorridorStep ==
    [][ ( /\ pc = "ready"
          /\ pc' # "ready"
          /\ IsSnake(next_snake, snake_head)
          /\ ~ FoodAdjacentToHead
          /\ CorridorStarts # {} )
        => ( /\ pc' = "link"
             /\ next_snake_head' \in CorridorStarts
             /\ ~ found_food'
             /\ is_food' = is_food ) ]_vars

\* C6: when every neighbour of the head is snake-occupied, advance raises
\* GameOver and Game.output stops: board_list is not appended to and still
\* ends with the snapshot of the board as it was before that advance.
C6_TrappedEndsRun ==
    [][ (pc = "ready" /\ pc' # "ready" /\ HeadSurrounded)
        => ( /\ pc' = "lost"
             /\ err' = "GameOver"
             /\ board_list' = board_list
             /\ Len(board_list') = advances' + 1
             /\ Last(board_list') = FreezeCells(next_snake, is_food) ) ]_vars

\* C6 witness: the run ended with GameOver on a surrounded head.
C6_Witness ==
    /\ pc = "lost"
    /\ HeadSurrounded
    /\ Len(board_list) = advances + 1

\* C7: assign_food raises GameWon exactly when every cell is snake; when it
\* does so inside an advance that ate food, Game.output ends normally and
\* appends no snapshot for that step.
C7_WonWhenFull ==
    [][ (pc \in {"assign_food", "assign_initial_food"} /\ pc' # pc)
        => ( /\ (err' = "GameWon") <=> (\A c \in Cells : IsSnake(next_snake, c))
             /\ (pc = "assign_food" /\ err' = "GameWon") =>
                    ( /\ pc' = "won"
                      /\ board_list' = board_list
                      /\ Len(board_list') = advances' + 1 ) ) ]_vars

\* C7 witness: the run ended with GameWon, every cell snake, after an
\* advance that ate food.
C7_Witness ==
    /\ pc = "won"
    /\ found_food
    /\ \A c \in Cells : IsSnake(next_snake, c)

\* C8: freeze_state leaves snake_head and every cell's next_snake and
\* is_food unchanged, and a snapshot taken with no advance since the
\* previous one records the same is_snake and is_food for every cell.
C8_FreezeIsPure ==
    [][ (Len(probe') > Len(probe))
        => ( /\ next_snake' = next_snake
             /\ is_food' = is_food
             /\ snake_head' = snake_head
             /\ \A c \in Cells :
                  /\ Last(probe')[c].is_snake = Last(board_list)[c].is_snake
                  /\ Last(probe')[c].is_food = Last(board_list)[c].is_food
                  /\ Len(probe) > 0 =>
                       /\ Last(probe')[c].is_snake = Last(probe)[c].is_snake
                       /\ Last(probe')[c].is_food = Last(probe)[c].is_food ) ]_vars

\* C8 witness: two snapshots were taken with no advance between them, on a
\* board with a snake and food.
C8_Witness ==
    /\ Len(probe) = 2
    /\ advances > 0
    /\ FoodCells # {}

\* The run of the end-to-end example: ring of 5, configured length 1, the
\* initial snapshot shows the head (the only snake cell) on 0 and food on 2.
RingExample ==
    /\ config.board.kind = "ring"
    /\ config.initial_snake_length = 1
    /\ Len(board_list) >= 1
    /\ board_list[1][0].is_snake
    /\ board_list[1][2].is_food

\* C9: in the ring example both advances complete without raising; the
\* first moves the head to cell 1, the second moves it to cell 2, eats the
\* food, leaves a snake of length 2 and places new food on cell 3 or 4.
C9_RingExample ==
    RingExample =>
        /\ pc # "crashed"
        /\ (pc = "ready" /\ advances = 1) => snake_head = 1
        /\ (pc = "ready" /\ advances = 2) =>
              /\ snake_head = 2
              /\ eaten = 1
              /\ ChainLength(next_snake, snake_head) = 2
              /\ FoodCells \subseteq {3, 4}
              /\ FoodCells # {}

\* C10: after initialisation and after every advance that returns, exactly
\* one cell is food and it is not snake; once the driver runs, no cell is
\* food only between eating and assign_food placing the next food, or after
\* GameWon.
C10_OneFood ==
    /\ Cardinality(FoodCells) <= 1
    /\ BetweenAdvances =>
         /\ Cardinality(FoodCells) = 1
         /\ \A c \in FoodCells : ~ IsSnake(next_snake, c)
    /\ (FoodCells = {} /\ board_list # << >>) =>
         /\ pc \in {"link", "assign_food", "won"}
         /\ found_food

\* C10 witness: inside an advance the food was eaten and the next food is
\* not placed yet.
C10_Witness ==
    /\ pc = "assign_food"
    /\ FoodCells = {}
    /\ advances > 0

\* C11: on a board initialised with initial_snake_length >= 1, every advance
\* returns or raises GameOver or GameWon; none raises LogicError (or any
\* other exception).
C11_NoLogicError ==
    (config.initial_snake_length >= 1 /\ board_list # << >>) =>
        err \in {"none", "GameOver", "GameWon"}

\* C14: every call of truncate_snake made by get_next_snake_head ends: no
\* advance is left walking the next_snake links for ever.
C14_TruncateTerminates ==
    err # "RecursionError"

\* The cells reached by following next_snake from head, head included.
ChainCells(ns, head) ==
    LET RECURSIVE Walk(_, _)
        Walk(c, seen) ==
            IF ns[c] = None \/ ns[c] \in seen THEN seen
            ELSE Walk(ns[c], seen \cup {ns[c]})
    IN  Walk(head, {head})

\* The number of cells with is_snake true.
SnakeCount(ns) == Cardinality({ c \in DOMAIN ns : IsSnake(ns, c) })

\* The number of cells a snapshot records as snake.
SnapshotSnakeCount(snapshot) ==
    Cardinality({ c \in DOMAIN snapshot : snapshot[c].is_snake })

\* This step is the return of an advance call to Game.output.
AdvanceReturns == pc # "append" /\ pc' = "append"

\* C12: every advance that returns has strictly decreased the number of
\* non-snake cells (the reason the claim gives for every run being bounded).
C12_FreeCellsShrink ==
    [][ AdvanceReturns =>
          Cardinality(Cells) - SnakeCount(next_snake')
            < Cardinality(Cells) - SnapshotSnakeCount(Last(board_list)) ]_vars

\* C12 amended: an advance that returns leaves the number of non-snake cells
\* unchanged when it moved onto a non-food cell and decreases it by exactly
\* one when it ate food; it never increases it.
C12_FreeCellsNeverGrow ==
    [][ AdvanceReturns =>
          Cardinality(Cells) - SnakeCount(next_snake')
            = Cardinality(Cells) - SnapshotSnakeCount(Last(board_list))
                - (IF pc = "assign_food" THEN 1 ELSE 0) ]_vars

\* C12 witness: an advance onto a non-food cell has returned and the number
\* of non-snake cells is what it was before the advance.
C12_Witness ==
    /\ pc = "append"
    /\ Cardinality(FoodCells) = 1
    /\ ChainLength(next_snake, snake_head) >= 2
    /\ SnakeCount(next_snake) = SnapshotSnakeCount(Last(board_list))
    /\ snake_head # None
    /\ ~ Last(board_list)[snake_head].is_snake

\* C15: an advance onto a non-food cell leaves the number of snake cells
\* unchanged, one that eats food raises it by exactly one, and afterwards
\* every snake cell is on the chain followed from snake_head.
C15_SnakeCellsOnChain ==
    [][ AdvanceReturns =>
          /\ SnakeCount(next_snake')
               = SnapshotSnakeCount(Last(board_list))
                   + (IF pc = "assign_food" THEN 1 ELSE 0)
          /\ \A c \in Cells :
               IsSnake(next_snake', c) => c \in ChainCells(next_snake', snake_head') ]_vars

\* C13: board_list starts with the snapshot of the initial board, taken
\* before any movement, and then gets exactly one snapshot, of the board as
\* the advance left it, after each advance that returned; an advance that
\* raises GameOver or GameWon adds none, so whenever the driver is between
\* steps or has returned, the list has 1 + (successful advances) entries.
C13_OneSnapshotPerAdvance ==
    [][ /\ board_list' # board_list =>
             \/ /\ pc = "output"
                /\ advances = 0
                /\ board_list' = << FreezeCells(next_snake, is_food) >>
             \/ /\ pc = "append"
                /\ board_list' = Append(board_list, FreezeCells(next_snake, is_food))
        /\ pc' \in {"ready", "lost", "won"} => Len(board_list') = 1 + advances'
        /\ pc' \in {"lost", "won"} => board_list' = board_list
        /\ AdvanceReturns => Len(board_list') = advances' ]_vars

\* C13 witness: the driver returned on GameOver after at least two
\* successful advances, with three or more snapshots.
C13_Witness ==
    /\ pc = "lost"
    /\ advances >= 2
    /\ Len(board_list) = 1 + advances

\* The cell straight ahead of the head: the continuation of the head entered
\* from its successor head.next_snake (None at the edge of the board).
ForwardCell == Continuation(connections, snake_head, next_snake[snake_head])

\* The neighbours of the head that are not snake-occupied.
FreeNeighbours ==
    { n \in NeighbourSet(connections, snake_head) : ~ IsSnake(next_snake, n) }

\* find_next_snake_head is about to be called with no food next to the head
\* and no straight corridor from the head to the food.
NoFoodInSight ==
    /\ pc = "ready"
    /\ IsSnake(next_snake, snake_head)
    /\ ~ FoodAdjacentToHead
    /\ CorridorStarts = {}

\* C16: with no food in sight find_next_snake_head returns the forward cell
\* whenever it exists and is not snake-occupied; only otherwise is the result
\* any one of the head's non-snake neighbours (GameOver when there is none).
C16_ForwardThenRandom ==
    NoFoodInSight =>
        LET f == FindNextSnakeHead(connections, next_snake, is_food, snake_head)
        IN  IF ForwardCell # None /\ ~ IsSnake(next_snake, ForwardCell)
            THEN f.raised = "none" /\ f.cells = {ForwardCell}
            ELSE IF FreeNeighbours = {}
                 THEN f.raised = "GameOver"
                 ELSE f.raised = "none" /\ f.cells = FreeNeighbours

\* C16 witness: no food in sight, the forward cell exists and is free, and
\* the head has another free neighbour it does not take.
C16_Witness ==
    /\ NoFoodInSight
    /\ ForwardCell # None
    /\ ~ IsSnake(next_snake, ForwardCell)
    /\ FreeNeighbours # {ForwardCell}
    /\ advances > 0

\* C17: the is_snake and is_food values a snapshot recorded never change:
\* whatever the later steps do, every snapshot already in board_list stays
\* as it was when it was taken.
C17_SnapshotsImmutable ==
    [][ /\ Len(board_list') >= Len(board_list)
        /\ \A i \in 1 .. Len(board_list) :
             \A c \in Cells :
                /\ board_list'[i][c].is_snake = board_list[i][c].is_snake
                /\ board_list'[i][c].is_food = board_list[i][c].is_food ]_vars

\* C17 witness: three snapshots or more, the first of which differs from
\* the second and from the live board.
C17_Witness ==
    /\ Len(board_list) >= 3
    /\ board_list[1] # board_list[2]
    /\ board_list[1] # FreezeCells(next_snake, is_food)
    /\ board_list[2] # FreezeCells(next_snake, is_food)

\* C18: after initialisation and after every successful advance the food is
\* on none of the cells reached by following next_snake from snake_head,
\* the tail cell (the last one, with a null next_snake) included.
C18_FoodOffChain ==
    BetweenAdvances =>
        FoodCells \cap ChainCells(next_snake, snake_head) = {}

\* C19: the step that completes a move puts the head on a neighbour of the
\* old head that was not snake-occupied before the advance began (nor when
\* it was chosen), and links the new head to the old head.
C19_HeadStepsToFreeNeighbour ==
    [][ (pc = "link" /\ pc' \in {"append", "assign_food"})
        => ( /\ snake_head' = next_snake_head
             /\ snake_head' \in NeighbourSet(connections, snake_head)
             /\ ~ Last(board_list)[snake_head'].is_snake
             /\ ~ IsSnake(next_snake, snake_head')
             /\ next_snake'[snake_head'] = snake_head ) ]_vars

\* C19 witness: a move onto a non-food cell has completed while another
\* neighbour of the old head is snake-occupied.
C19_Witness ==
    /\ pc = "append"
    /\ Cardinality(FoodCells) = 1
    /\ IsSnake(next_snake, snake_head)
    /\ next_snake[snake_head] \in NeighbourSet(connections, snake_head)
    /\ \E n \in NeighbourSet(connections, next_snake[snake_head]) :
          n # snake_head /\ Last(board_list)[n].is_snake

\* C20: an advance that raises GameOver leaves snake_head, every next_snake
\* link and every is_food flag as they were before it.
C20_GameOverChangesNothing ==
    [][ (pc = "ready" /\ pc' = "lost")
        => ( /\ err' = "GameOver"
             /\ snake_head' = snake_head
             /\ next_snake' = next_snake
             /\ is_food' = is_food ) ]_vars

\* C20 witness: GameOver was raised after at least one successful advance
\* and the live board still equals the last snapshot.
C20_Witness ==
    /\ pc = "lost"
    /\ err = "GameOver"
    /\ advances >= 1
    /\ FreezeCells(next_snake, is_food) = Last(board_list)
    /\ ChainLength(next_snake, snake_head) >= 3
====
